---- MODULE Spec2Model ----
(***************************************************************************)
(* Model of package controller (grantr/pkg): a convenience layer that      *)
(* builds an informer cache and a delegating client over controller-       *)
(* runtime, guarded by sync.Once.  The repository holds four revisions of  *)
(* the package; a program links exactly one of them, chosen in Init:       *)
(*   "runtime"        src/controller/runtime.go                            *)
(*   "client"         src/controller/client.go                             *)
(*   "cacheAndClient" src/unnamed/part_000                                 *)
(*   "startCache"     src/unnamed/part_001                                 *)
(* Library calls (discovery, cache.New, client.New, GetInformer) succeed   *)
(* or fail nondeterministically; the objects they build carry a fresh id.  *)
(***************************************************************************)
EXTENDS Integers, Sequences, FiniteSets, TLC

VARIABLES
    rev,        \* the revision of the package the program links
    Cache,      \* var Cache cache.Cache (runtime.go, part_001)
    cacheOnce,  \* var cacheOnce sync.Once: "idle", "running" or "done"
    mapper,     \* var mapper meta.RESTMapper (part_001)
    Client,     \* var Client client.Client (client.go)
    clientOnce, \* var clientOnce sync.Once
    pc,         \* per goroutine: the frame of the call it is executing
    nextId,     \* identity of the next object a library call constructs
    handlers,   \* AddEventHandler calls received, as <<informer, handler>>
    started,    \* Start calls received by caches, as <<cache id, stopCh>>
    calls,      \* number of calls begun
    onceRuns,   \* history: number of executions of a once body
    assigns,    \* history: number of assignments to Cache
    nccCalled,  \* history: a NewCachingClient call on a config has returned
    unsafeSet,  \* history: UnsafeSetClient has been called
    lastBuild,  \* history: the last cache.New call, its opts and Options
    lastRet     \* history: the call that returned last, with its results

vars == <<rev, Cache, cacheOnce, mapper, Client, clientOnce, pc, nextId,
          handlers, started, calls, onceRuns, assigns, nccCalled, unsafeSet,
          lastBuild, lastRet>>

----------------------------------------------------------------------------
(* Bounds *)

MaxCalls == 3
MaxOpts == 3

(* Values *)

Procs == {"g1", "g2"}
Revisions == {"runtime", "client", "cacheAndClient", "startCache"}

Nil == [nil |-> TRUE]
NoErr == "nil"
NilConfig == "nil"
Configs == {NilConfig, "kubeconfig"}
Schemes == {"s1"}
Durations == {1}
Namespaces == {"ns1", "ns2"}
StopChs == {"stopCh"}
Objs == {"Pod"}
Handlers == {"h1"}

\* A mapper handed in by a caller inside the package, built before the run.
GivenMapper == [kind |-> "mapper", id |-> 0, config |-> "kubeconfig"]

----------------------------------------------------------------------------
(* RuntimeOptions and the functional options *)

RuntimeOptions == [Scheme |-> "nil", Resync |-> <<>>, Namespace |-> "",
                   mapper |-> Nil]

Scheme(scheme) == [kind |-> "Scheme", val |-> scheme]
Resync(resync) == [kind |-> "Resync", val |-> resync]
Namespace(namespace) == [kind |-> "Namespace", val |-> namespace]
mapperOpt(m) == [kind |-> "mapper", val |-> m]

RuntimeOptionFunc_FirstWins(optFunc, o) ==
    CASE optFunc.kind = "Scheme" ->
            IF o.Scheme = "nil" THEN [o EXCEPT !.Scheme = optFunc.val] ELSE o
      [] optFunc.kind = "Resync" ->
            IF o.Resync = <<>> THEN [o EXCEPT !.Resync = <<optFunc.val>>] ELSE o
      [] optFunc.kind = "Namespace" ->
            IF o.Namespace = "" THEN [o EXCEPT !.Namespace = optFunc.val] ELSE o
      [] optFunc.kind = "mapper" ->
            IF o.mapper = Nil THEN [o EXCEPT !.mapper = optFunc.val] ELSE o

\* optFunc(o): the body of the closure each option constructor returns.
RuntimeOptionFunc(optFunc, o) ==
    CASE optFunc.kind = "Scheme" -> [o EXCEPT !.Scheme = optFunc.val]
      [] optFunc.kind = "Resync" -> [o EXCEPT !.Resync = <<optFunc.val>>]
      [] optFunc.kind = "Namespace" -> [o EXCEPT !.Namespace = optFunc.val]
      [] optFunc.kind = "mapper" -> [o EXCEPT !.mapper = optFunc.val]

\* resolvedOpts := &RuntimeOptions{}; for _, optFunc := range opts {...}
RECURSIVE ApplyFrom(_, _, _)
ApplyFrom(opts, i, o) ==
    IF i > Len(opts) THEN o
    ELSE ApplyFrom(opts, i + 1, RuntimeOptionFunc(opts[i], o))

Resolve(opts) == ApplyFrom(opts, 1, RuntimeOptions)

\* The options a caller may pass.
PublicOptions ==
    {Scheme(s) : s \in Schemes} \cup {Resync(d) : d \in Durations}
        \cup {Namespace(n) : n \in Namespaces}
PackageOptions == PublicOptions \cup {mapperOpt(GivenMapper)}

SeqsUpTo(S, n) == UNION {[1..k -> S] : k \in 0..n}

----------------------------------------------------------------------------
(* The libraries: what each call is given and what it returns *)

apiutil_NewDiscoveryRESTMapper(config, ok, id) ==
    IF ok
    THEN [val |-> [kind |-> "mapper", id |-> id, config |-> config],
          err |-> NoErr]
    ELSE [val |-> Nil, err |-> "discovery failed"]

cache_Options(scheme, m, resync, namespace) ==
    [Scheme |-> scheme, Mapper |-> m, Resync |-> resync,
     Namespace |-> namespace]

cache_New(config, options, ok, id) ==
    IF ok
    THEN [val |-> [kind |-> "cache", id |-> id, config |-> config,
                   Scheme |-> options.Scheme, Mapper |-> options.Mapper,
                   Resync |-> options.Resync,
                   Namespace |-> options.Namespace],
          err |-> NoErr]
    ELSE [val |-> Nil, err |-> "cache.New failed"]

client_New(config, scheme, m, ok, id) ==
    IF ok
    THEN [val |-> [kind |-> "client", id |-> id, config |-> config,
                   Scheme |-> scheme, Mapper |-> m],
          err |-> NoErr]
    ELSE [val |-> Nil, err |-> "client.New failed"]

DelegatingClient_WriteToCache(cacheReader, apiClient) ==
    [kind |-> "delegating", CacheReader |-> cacheReader,
     ClientReader |-> apiClient, Writer |-> cacheReader,
     StatusClient |-> apiClient]

\* &client.DelegatingClient{Reader: &client.DelegatingReader{...}, ...}
DelegatingClient(cacheReader, apiClient) ==
    [kind |-> "delegating", CacheReader |-> cacheReader,
     ClientReader |-> apiClient, Writer |-> apiClient,
     StatusClient |-> apiClient]

\* cache.GetInformer(obj): the informer of obj in that cache, or an error.
GetInformer(cache, obj, ok) ==
    IF ok
    THEN [val |-> [kind |-> "informer", cache |-> cache.id, obj |-> obj],
          err |-> NoErr]
    ELSE [val |-> Nil, err |-> "GetInformer failed"]

----------------------------------------------------------------------------
(* The package's functions that run without interleaving *)

resyncPeriod == 10
clientScheme == "scheme.Scheme"

NoBuild == [fn |-> "none"]
Build(fn, config, opts, options) ==
    [fn |-> fn, config |-> config, opts |-> opts, options |-> options]

\* runtime.go: NewCache(config, opts...) with the outcomes of discovery
\* (dOk) and cache.New (cOk); id is the next object identity.
NewCache(config, opts, dOk, cOk, id) ==
    IF config = NilConfig
    THEN [val |-> Nil, err |-> "must specify Config", nextId |-> id,
          build |-> NoBuild]
    ELSE LET resolvedOpts == Resolve(opts)
             discover == resolvedOpts.mapper = Nil
             disc == IF discover
                     THEN apiutil_NewDiscoveryRESTMapper(config, dOk, id)
                     ELSE [val |-> resolvedOpts.mapper, err |-> NoErr]
             id1 == IF discover /\ dOk THEN id + 1 ELSE id
             restMapper == disc.val
             options == cache_Options(resolvedOpts.Scheme, restMapper,
                                      resolvedOpts.Resync,
                                      resolvedOpts.Namespace)
             c == cache_New(config, options, cOk, id1)
         IN  IF disc.err # NoErr
             THEN [val |-> Nil, err |-> disc.err, nextId |-> id,
                   build |-> NoBuild]
             ELSE [val |-> c.val, err |-> c.err,
                   nextId |-> IF cOk THEN id1 + 1 ELSE id1,
                   build |-> Build("NewCache", config, opts, options)]

\* client.go: newClient(config).
newClient(config, dOk, cOk, clOk, id) ==
    IF config = NilConfig
    THEN [client |-> Nil, start |-> Nil, err |-> "must specify Config",
          nextId |-> id, apiClient |-> Nil, cache |-> Nil]
    ELSE LET disc == apiutil_NewDiscoveryRESTMapper(config, dOk, id)
             options == cache_Options(clientScheme, disc.val,
                                      <<resyncPeriod>>, "")
             c == cache_New(config, options, cOk, id + 1)
             apiClient == client_New(config, clientScheme, disc.val, clOk,
                                     id + 2)
         IN  IF disc.err # NoErr
             THEN [client |-> Nil, start |-> Nil, err |-> disc.err,
                   nextId |-> id, apiClient |-> Nil, cache |-> Nil]
             ELSE IF c.err # NoErr
             THEN [client |-> Nil, start |-> Nil, err |-> c.err,
                   nextId |-> id + 1, apiClient |-> Nil, cache |-> Nil]
             ELSE IF apiClient.err # NoErr
             THEN [client |-> Nil, start |-> Nil, err |-> apiClient.err,
                   nextId |-> id + 2, apiClient |-> Nil, cache |-> c.val]
             ELSE [client |-> DelegatingClient(c.val, apiClient.val),
                   start |-> [kind |-> "Start", cache |-> c.val.id],
                   err |-> NoErr, nextId |-> id + 3,
                   apiClient |-> apiClient.val, cache |-> c.val]

\* part_000: NewCacheAndClient(config, opts...).
NewCacheAndClient(config, opts, dOk, cOk, clOk, id) ==
    IF config = NilConfig
    THEN [cache |-> Nil, client |-> Nil, err |-> "must specify Config",
          nextId |-> id, apiClient |-> Nil, build |-> NoBuild]
    ELSE LET resolvedOpts == Resolve(opts)
             disc == apiutil_NewDiscoveryRESTMapper(config, dOk, id)
             options == cache_Options(resolvedOpts.Scheme, disc.val,
                                      resolvedOpts.Resync,
                                      resolvedOpts.Namespace)
             c == cache_New(config, options, cOk, id + 1)
             apiClient == client_New(config, resolvedOpts.Scheme, disc.val,
                                     clOk, id + 2)
             build == Build("NewCacheAndClient", config, opts, options)
         IN  IF disc.err # NoErr
             THEN [cache |-> Nil, client |-> Nil, err |-> disc.err,
                   nextId |-> id, apiClient |-> Nil, build |-> NoBuild]
             ELSE IF c.err # NoErr
             THEN [cache |-> Nil, client |-> Nil, err |-> c.err,
                   nextId |-> id + 1, apiClient |-> Nil, build |-> build]
             ELSE IF apiClient.err # NoErr
             THEN [cache |-> Nil, client |-> Nil, err |-> apiClient.err,
                   nextId |-> id + 2, apiClient |-> Nil, build |-> build]
             ELSE [cache |-> c.val,
                   client |-> DelegatingClient(c.val, apiClient.val),
                   err |-> NoErr, nextId |-> id + 3,
                   apiClient |-> apiClient.val, build |-> build]

\* part_001: NewClient(config, opts...), reading the globals mapper and Cache.
NewClient(config, opts, clOk, id, globalMapper, globalCache) ==
    IF config = NilConfig
    THEN [client |-> Nil, err |-> "must specify Config", nextId |-> id,
          apiClient |-> Nil]
    ELSE LET resolvedOpts == Resolve(opts)
             apiClient == client_New(config, resolvedOpts.Scheme,
                                     globalMapper, clOk, id)
         IN  IF apiClient.err # NoErr
             THEN [client |-> Nil, err |-> apiClient.err, nextId |-> id,
                   apiClient |-> Nil]
             ELSE [client |-> DelegatingClient(globalCache, apiClient.val),
                   err |-> NoErr, nextId |-> id + 1,
                   apiClient |-> apiClient.val]

MustGetInformerOn_Swallow(cache, obj, ok) ==
    IF cache = Nil
    THEN [informer |-> Nil, panic |-> "nil pointer dereference",
          gi |-> [called |-> FALSE]]
    ELSE LET g == GetInformer(cache, obj, ok)
         IN  [informer |-> [kind |-> "informer", cache |-> cache.id,
                            obj |-> obj],
              panic |-> NoErr,
              gi |-> [called |-> TRUE, val |-> g.val, err |-> g.err]]

\* MustGetInformer on a cache (the global Cache, or part_000's argument):
\* the informer returned, or the value the call panics with.
MustGetInformerOn(cache, obj, ok) ==
    IF cache = Nil
    THEN [informer |-> Nil, panic |-> "nil pointer dereference",
          gi |-> [called |-> FALSE]]
    ELSE LET g == GetInformer(cache, obj, ok)
         IN  [informer |-> IF g.err # NoErr THEN Nil ELSE g.val,
              panic |-> g.err,
              gi |-> [called |-> TRUE, val |-> g.val, err |-> g.err]]

----------------------------------------------------------------------------
(* Frames and returns *)

IdleFrame ==
    [fn |-> "none", at |-> "idle", config |-> NilConfig, opts |-> <<>>,
     resolvedOpts |-> RuntimeOptions, err |-> NoErr, start |-> Nil,
     client |-> Nil, apiClient |-> Nil, stopCh |-> "none", ranBody |-> FALSE,
     afterNCC |-> FALSE]

Frame(fn, config, opts, resolvedOpts) ==
    [IdleFrame EXCEPT !.fn = fn, !.at = "once", !.config = config,
                      !.opts = opts, !.resolvedOpts = resolvedOpts,
                      !.afterNCC = nccCalled]

NoRet ==
    [fn |-> "none", config |-> NilConfig, err |-> NoErr, panic |-> NoErr,
     cache |-> Nil, client |-> Nil, apiClient |-> Nil, start |-> Nil,
     informer |-> Nil, gi |-> [called |-> FALSE], obj |-> "none",
     handler |-> "none", handlers0 |-> <<>>, stopCh |-> "none",
     ranBody |-> FALSE, afterNCC |-> FALSE]

Ret(fn, config, err) ==
    [NoRet EXCEPT !.fn = fn, !.config = config, !.err = err,
                  !.afterNCC = nccCalled]

\* An unrecovered panic ends the program.
Running == lastRet.panic = NoErr

\* Goroutine p begins a call.
Begin(p) ==
    /\ Running
    /\ pc[p].at = "idle"
    /\ calls < MaxCalls
    /\ calls' = calls + 1

Globals == <<Cache, cacheOnce, mapper, Client, clientOnce>>
History == <<onceRuns, assigns, nccCalled, lastBuild>>

Init ==
    /\ rev \in Revisions
    /\ Cache = Nil
    /\ cacheOnce = "idle"
    /\ mapper = Nil
    /\ Client = Nil
    /\ clientOnce = "idle"
    /\ pc = [p \in Procs |-> IdleFrame]
    /\ nextId = 1
    /\ handlers = <<>>
    /\ started = {}
    /\ calls = 0
    /\ onceRuns = 0
    /\ assigns = 0
    /\ nccCalled = FALSE
    /\ unsafeSet = FALSE
    /\ lastBuild = NoBuild
    /\ lastRet = NoRet

----------------------------------------------------------------------------
(* sync.Once *)

Once == IF rev = "client" THEN clientOnce ELSE cacheOnce

SetOnce(v) ==
    IF rev = "client"
    THEN clientOnce' = v /\ cacheOnce' = cacheOnce
    ELSE cacheOnce' = v /\ clientOnce' = clientOnce

\* The function that called Do returns: ConfigureGlobalCache to its caller
\* (the program, or NewCachingClient), StartCache and SetClient to the program.
ReturnFromDo(p) ==
    LET f == pc[p]
    IN  IF f.fn = "NewCachingClient"
        THEN /\ pc' = [pc EXCEPT ![p].at = "client"]
             /\ lastRet' = lastRet
        ELSE /\ pc' = [pc EXCEPT ![p] = IdleFrame]
             /\ lastRet' = [NoRet EXCEPT !.fn = f.fn, !.config = f.config,
                                         !.err = f.err, !.start = f.start,
                                         !.client = f.client,
                                         !.apiClient = f.apiClient,
                                         !.stopCh = f.stopCh,
                                         !.ranBody = f.ranBody,
                                         !.afterNCC = f.afterNCC]

OnceDo_NoDoneCheck(p) ==
    /\ Running
    /\ pc[p].at = "once"
    /\ Once # "running"
    /\ SetOnce("running")
    /\ pc' = [pc EXCEPT ![p].at = "body"]
    /\ UNCHANGED <<rev, unsafeSet, Cache, mapper, Client, nextId, handlers, started,
                   calls, History, lastRet>>

\* once.Do(f): return at once when f has run, run f when no call has begun
\* it, and wait (no step) while another goroutine runs it.
OnceDo(p) ==
    /\ Running
    /\ pc[p].at = "once"
    /\ \/ /\ Once = "done"
          /\ ReturnFromDo(p)
          /\ UNCHANGED <<cacheOnce, clientOnce>>
       \/ /\ Once = "idle"
          /\ SetOnce("running")
          /\ pc' = [pc EXCEPT ![p].at = "body"]
          /\ lastRet' = lastRet
    /\ UNCHANGED <<rev, unsafeSet, Cache, mapper, Client, nextId, handlers, started,
                   calls, History>>

\* f has returned: Do marks the Once done and returns.
OnceDone(p) ==
    /\ Running
    /\ pc[p].at = "unlock"
    /\ SetOnce("done")
    /\ ReturnFromDo(p)
    /\ UNCHANGED <<rev, unsafeSet, Cache, mapper, Client, nextId, handlers, started,
                   calls, History>>

----------------------------------------------------------------------------
(* runtime.go *)

\* A call of NewCache by the program.
CallNewCache(p, config, opts, dOk, cOk) ==
    /\ rev = "runtime"
    /\ Begin(p)
    /\ LET r == NewCache(config, opts, dOk, cOk, nextId)
       IN  /\ nextId' = r.nextId
           /\ lastBuild' = IF r.build = NoBuild THEN lastBuild ELSE r.build
           /\ lastRet' = [Ret("NewCache", config, r.err) EXCEPT
                              !.cache = r.val]
    /\ UNCHANGED <<rev, unsafeSet, Globals, pc, handlers, started, onceRuns, assigns,
                   nccCalled>>

\* StartGlobalCache(stopCh): Cache.Start(stopCh), which may fail.
StartGlobalCache(p, stopCh, ok) ==
    /\ rev = "runtime"
    /\ Begin(p)
    /\ IF Cache = Nil
       THEN /\ lastRet' = [Ret("StartGlobalCache", NilConfig, NoErr) EXCEPT
                               !.panic = "nil pointer dereference",
                               !.stopCh = stopCh]
            /\ started' = started
       ELSE /\ lastRet' = [Ret("StartGlobalCache", NilConfig,
                               IF ok THEN NoErr ELSE "Start failed") EXCEPT
                               !.stopCh = stopCh, !.cache = Cache]
            /\ started' = IF ok THEN started \cup {<<Cache.id, stopCh>>}
                          ELSE started
    /\ UNCHANGED <<rev, unsafeSet, Globals, pc, nextId, handlers, History>>

\* ConfigureGlobalCache up to its call of cacheOnce.Do.
ConfigureGlobalCache(p, config, opts) ==
    /\ rev = "runtime"
    /\ Begin(p)
    /\ IF config = NilConfig
       THEN /\ lastRet' = Ret("ConfigureGlobalCache", config,
                              "must specify Config")
            /\ pc' = pc
       ELSE /\ pc' = [pc EXCEPT ![p] = Frame("ConfigureGlobalCache", config,
                                             opts, Resolve(opts))]
            /\ lastRet' = lastRet
    /\ UNCHANGED <<rev, unsafeSet, Globals, nextId, handlers, started, History>>

\* NewCachingClient up to its call of ConfigureGlobalCache, which begins
\* with the same config (not nil) and the opts with the mapper appended.
NewCachingClient(p, config, opts, dOk) ==
    /\ rev = "runtime"
    /\ Begin(p)
    /\ LET resolvedOpts == Resolve(opts)
           disc == apiutil_NewDiscoveryRESTMapper(config, dOk, nextId)
       IN  IF config = NilConfig
           THEN /\ lastRet' = Ret("NewCachingClient", config,
                                  "must specify Config")
                /\ UNCHANGED <<pc, nextId, nccCalled>>
           ELSE IF resolvedOpts.mapper # Nil
           THEN /\ pc' = [pc EXCEPT ![p] = Frame("NewCachingClient", config,
                                                 opts, resolvedOpts)]
                /\ UNCHANGED <<lastRet, nextId, nccCalled>>
           ELSE IF disc.err # NoErr
           THEN /\ lastRet' = Ret("NewCachingClient", config, disc.err)
                /\ nccCalled' = TRUE
                /\ UNCHANGED <<pc, nextId>>
           ELSE /\ pc' = [pc EXCEPT ![p] =
                            Frame("NewCachingClient", config,
                                  Append(opts, mapperOpt(disc.val)),
                                  [resolvedOpts EXCEPT !.mapper = disc.val])]
                /\ nextId' = nextId + 1
                /\ UNCHANGED <<lastRet, nccCalled>>
    /\ UNCHANGED <<rev, unsafeSet, Globals, handlers, started, onceRuns, assigns,
                   lastBuild>>

\* The function ConfigureGlobalCache hands to cacheOnce.Do.
ConfigureBody(p, dOk, cOk) ==
    /\ rev = "runtime"
    /\ Running
    /\ pc[p].at = "body"
    /\ LET r == NewCache(pc[p].config, pc[p].opts, dOk, cOk, nextId)
       IN  /\ Cache' = r.val
           /\ nextId' = r.nextId
           /\ lastBuild' = IF r.build = NoBuild THEN lastBuild ELSE r.build
           /\ pc' = [pc EXCEPT ![p].at = "unlock", ![p].err = r.err,
                               ![p].ranBody = TRUE]
    /\ onceRuns' = onceRuns + 1
    /\ assigns' = assigns + 1
    /\ UNCHANGED <<rev, unsafeSet, cacheOnce, mapper, Client, clientOnce, handlers,
                   started, calls, nccCalled, lastRet>>

\* NewCachingClient after ConfigureGlobalCache has returned.
NewCachingClientFinish(p, clOk) ==
    /\ rev = "runtime"
    /\ Running
    /\ pc[p].at = "client"
    /\ LET f == pc[p]
           apiClient == client_New(f.config, f.resolvedOpts.Scheme,
                                   f.resolvedOpts.mapper, clOk, nextId)
           ret == [Ret("NewCachingClient", f.config, f.err) EXCEPT
                       !.ranBody = f.ranBody, !.afterNCC = f.afterNCC,
                       !.cache = Cache]
       IN  IF f.err # NoErr
           THEN /\ lastRet' = ret
                /\ nextId' = nextId
           ELSE IF apiClient.err # NoErr
           THEN /\ lastRet' = [ret EXCEPT !.err = apiClient.err]
                /\ nextId' = nextId
           ELSE /\ lastRet' = [ret EXCEPT
                                 !.client = DelegatingClient(Cache,
                                                             apiClient.val),
                                 !.apiClient = apiClient.val]
                /\ nextId' = nextId + 1
    /\ pc' = [pc EXCEPT ![p] = IdleFrame]
    /\ nccCalled' = TRUE
    /\ UNCHANGED <<rev, unsafeSet, Globals, handlers, started, calls, onceRuns, assigns,
                   lastBuild>>

\* MustGetInformer(obj) on a cache.
MustGetInformerFrom(p, cache, obj, ok) ==
    /\ Begin(p)
    /\ LET m == MustGetInformerOn(cache, obj, ok)
       IN  lastRet' = [Ret("MustGetInformer", NilConfig, NoErr) EXCEPT
                           !.panic = m.panic, !.informer = m.informer,
                           !.gi = m.gi, !.cache = cache, !.obj = obj]
    /\ UNCHANGED <<rev, unsafeSet, Globals, pc, nextId, handlers, started, History>>

\* MustGetInformer(obj).AddEventHandler(handler) on a cache.
MustAddEventHandlerTo(p, cache, obj, handler, ok) ==
    /\ Begin(p)
    /\ LET m == MustGetInformerOn(cache, obj, ok)
       IN  /\ lastRet' = [Ret("MustAddEventHandler", NilConfig, NoErr) EXCEPT
                              !.panic = m.panic, !.gi = m.gi,
                              !.cache = cache, !.obj = obj,
                              !.handler = handler, !.handlers0 = handlers]
           /\ handlers' = IF m.panic # NoErr THEN handlers
                          ELSE Append(handlers, <<m.informer, handler>>)
    /\ UNCHANGED <<rev, unsafeSet, Globals, pc, nextId, started, History>>

\* runtime.go and part_001: the cache is the global Cache.
MustGetInformer(p, obj, ok) ==
    /\ rev \in {"runtime", "startCache"}
    /\ MustGetInformerFrom(p, Cache, obj, ok)

MustAddEventHandler(p, obj, handler, ok) ==
    /\ rev \in {"runtime", "startCache"}
    /\ MustAddEventHandlerTo(p, Cache, obj, handler, ok)

----------------------------------------------------------------------------
(* client.go *)

\* SetClient up to its call of clientOnce.Do.
SetClient(p, config) ==
    /\ rev = "client"
    /\ Begin(p)
    /\ pc' = [pc EXCEPT ![p] = Frame("SetClient", config, <<>>,
                                     RuntimeOptions)]
    /\ UNCHANGED <<rev, unsafeSet, Globals, nextId, handlers, started, History, lastRet>>

\* The function SetClient hands to clientOnce.Do.
SetClientBody(p, dOk, cOk, clOk) ==
    /\ rev = "client"
    /\ Running
    /\ pc[p].at = "body"
    /\ LET r == newClient(pc[p].config, dOk, cOk, clOk, nextId)
       IN  /\ Client' = r.client
           /\ nextId' = r.nextId
           /\ pc' = [pc EXCEPT ![p].at = "unlock", ![p].err = r.err,
                               ![p].start = r.start,
                               ![p].client = r.client,
                               ![p].apiClient = r.apiClient,
                               ![p].ranBody = TRUE]
    /\ onceRuns' = onceRuns + 1
    /\ UNCHANGED <<rev, unsafeSet, Cache, cacheOnce, mapper, clientOnce, handlers,
                   started, calls, assigns, nccCalled, lastBuild, lastRet>>

\* A client a test puts in place of the package's own.
TestClients == {Nil, [kind |-> "fake"]}

UnsafeSetClient(p, c) ==
    /\ rev = "client"
    /\ Begin(p)
    /\ Client' = c
    /\ unsafeSet' = TRUE
    /\ lastRet' = [Ret("UnsafeSetClient", NilConfig, NoErr) EXCEPT
                       !.client = c]
    /\ UNCHANGED <<rev, Cache, cacheOnce, mapper, clientOnce, pc, nextId,
                   handlers, started, History>>

\* The program calls the StartFunc that SetClient has just returned without
\* an error: cache.Start(stopCh), or a call of a nil func.
CallStartFunc(p, stopCh) ==
    /\ rev = "client"
    /\ Begin(p)
    /\ lastRet.fn = "SetClient"
    /\ lastRet.err = NoErr
    /\ IF lastRet.start = Nil
       THEN /\ lastRet' = [Ret("StartFunc", NilConfig, NoErr) EXCEPT
                               !.panic = "nil pointer dereference",
                               !.stopCh = stopCh]
            /\ started' = started
       ELSE /\ lastRet' = [Ret("StartFunc", NilConfig, NoErr) EXCEPT
                               !.stopCh = stopCh]
            /\ started' = started \cup {<<lastRet.start.cache, stopCh>>}
    /\ UNCHANGED <<rev, unsafeSet, Globals, pc, nextId, handlers, History>>

----------------------------------------------------------------------------
(* part_000 *)

CallNewCacheAndClient(p, config, opts, dOk, cOk, clOk) ==
    /\ rev = "cacheAndClient"
    /\ Begin(p)
    /\ LET r == NewCacheAndClient(config, opts, dOk, cOk, clOk, nextId)
       IN  /\ nextId' = r.nextId
           /\ lastBuild' = IF r.build = NoBuild THEN lastBuild ELSE r.build
           /\ lastRet' = [Ret("NewCacheAndClient", config, r.err) EXCEPT
                              !.cache = r.cache, !.client = r.client,
                              !.apiClient = r.apiClient]
    /\ UNCHANGED <<rev, unsafeSet, Globals, pc, handlers, started, onceRuns, assigns,
                   nccCalled>>

\* The caches the program can pass: none, or the one the last call held.
HeldCaches == {Nil, lastRet.cache}

MustGetInformerIn(p, cache, obj, ok) ==
    /\ rev = "cacheAndClient"
    /\ MustGetInformerFrom(p, cache, obj, ok)

MustAddEventHandlerIn(p, cache, obj, handler, ok) ==
    /\ rev = "cacheAndClient"
    /\ MustAddEventHandlerTo(p, cache, obj, handler, ok)

----------------------------------------------------------------------------
(* part_001 *)

\* StartCache up to its call of cacheOnce.Do.
StartCache(p, config, stopCh, opts) ==
    /\ rev = "startCache"
    /\ Begin(p)
    /\ IF config = NilConfig
       THEN /\ lastRet' = [Ret("StartCache", config, "must specify Config")
                               EXCEPT !.stopCh = stopCh]
            /\ pc' = pc
       ELSE /\ pc' = [pc EXCEPT ![p] =
                        [Frame("StartCache", config, opts, Resolve(opts))
                             EXCEPT !.stopCh = stopCh]]
            /\ lastRet' = lastRet
    /\ UNCHANGED <<rev, unsafeSet, Globals, nextId, handlers, started, History>>

\* The function StartCache hands to cacheOnce.Do.
StartCacheBody(p, dOk, cOk) ==
    /\ rev = "startCache"
    /\ Running
    /\ pc[p].at = "body"
    /\ LET f == pc[p]
           disc == apiutil_NewDiscoveryRESTMapper(f.config, dOk, nextId)
           options == cache_Options(f.resolvedOpts.Scheme, disc.val,
                                    f.resolvedOpts.Resync,
                                    f.resolvedOpts.Namespace)
           c == cache_New(f.config, options, cOk, nextId + 1)
       IN  /\ mapper' = disc.val
           /\ IF disc.err # NoErr
              THEN /\ pc' = [pc EXCEPT ![p].at = "unlock",
                                       ![p].err = disc.err,
                                       ![p].ranBody = TRUE]
                   /\ UNCHANGED <<Cache, nextId, lastBuild, assigns>>
              ELSE /\ Cache' = c.val
                   /\ assigns' = assigns + 1
                   /\ nextId' = IF cOk THEN nextId + 2 ELSE nextId + 1
                   /\ lastBuild' = Build("StartCache", f.config, f.opts,
                                         options)
                   /\ pc' = [pc EXCEPT ![p].at = "unlock", ![p].err = c.err,
                                       ![p].ranBody = TRUE]
    /\ onceRuns' = onceRuns + 1
    /\ UNCHANGED <<rev, unsafeSet, cacheOnce, Client, clientOnce, handlers, started,
                   calls, nccCalled, lastRet>>

CallNewClient(p, config, opts, clOk) ==
    /\ rev = "startCache"
    /\ Begin(p)
    /\ LET r == NewClient(config, opts, clOk, nextId, mapper, Cache)
       IN  /\ nextId' = r.nextId
           /\ lastRet' = [Ret("NewClient", config, r.err) EXCEPT
                              !.client = r.client, !.apiClient = r.apiClient,
                              !.cache = Cache]
    /\ UNCHANGED <<rev, unsafeSet, Globals, pc, handlers, started, History>>

----------------------------------------------------------------------------

Step(p, PublicLists, PackageLists) ==
    \/ \E config \in Configs, opts \in PackageLists,
          dOk, cOk \in BOOLEAN :
            CallNewCache(p, config, opts, dOk, cOk)
    \/ \E stopCh \in StopChs, ok \in BOOLEAN :
            StartGlobalCache(p, stopCh, ok)
    \/ \E config \in Configs, opts \in PackageLists :
            ConfigureGlobalCache(p, config, opts)
    \/ \E config \in Configs, opts \in PackageLists,
          dOk \in BOOLEAN :
            NewCachingClient(p, config, opts, dOk)
    \/ OnceDo(p)
    \/ \E dOk, cOk \in BOOLEAN : ConfigureBody(p, dOk, cOk)
    \/ OnceDone(p)
    \/ \E clOk \in BOOLEAN : NewCachingClientFinish(p, clOk)
    \/ \E obj \in Objs, ok \in BOOLEAN : MustGetInformer(p, obj, ok)
    \/ \E obj \in Objs, handler \in Handlers, ok \in BOOLEAN :
            MustAddEventHandler(p, obj, handler, ok)
    \/ \E config \in Configs : SetClient(p, config)
    \/ \E dOk, cOk, clOk \in BOOLEAN : SetClientBody(p, dOk, cOk, clOk)
    \/ \E c \in TestClients : UnsafeSetClient(p, c)
    \/ \E stopCh \in StopChs : CallStartFunc(p, stopCh)
    \/ \E config \in Configs, opts \in PublicLists,
          dOk, cOk, clOk \in BOOLEAN :
            CallNewCacheAndClient(p, config, opts, dOk, cOk, clOk)
    \/ \E cache \in HeldCaches, obj \in Objs, ok \in BOOLEAN :
            MustGetInformerIn(p, cache, obj, ok)
    \/ \E cache \in HeldCaches, obj \in Objs, handler \in Handlers,
          ok \in BOOLEAN :
            MustAddEventHandlerIn(p, cache, obj, handler, ok)
    \/ \E config \in Configs, stopCh \in StopChs,
          opts \in PublicLists :
            StartCache(p, config, stopCh, opts)
    \/ \E dOk, cOk \in BOOLEAN : StartCacheBody(p, dOk, cOk)
    \/ \E config \in Configs, opts \in PublicLists,
          clOk \in BOOLEAN :
            CallNewClient(p, config, opts, clOk)

\* Goroutines interleave; each call passes one of a few option lists.
SampleLists == {<<>>, <<Scheme("s1"), Namespace("ns1")>>}
SamplePackageLists == SampleLists \cup {<<mapperOpt(GivenMapper)>>}

Next == \E p \in Procs : Step(p, SampleLists, SamplePackageLists)

Spec == Init /\ [][Next]_vars

\* One goroutine makes one call of a function that takes options, with any
\* list of at most MaxOpts options.
OptionLists == SeqsUpTo(PublicOptions, MaxOpts)
PackageOptionLists == SeqsUpTo(PackageOptions, MaxOpts)

NextOptions ==
    \/ \E config \in Configs, opts \in PackageOptionLists,
          dOk, cOk \in BOOLEAN :
            calls = 0 /\ CallNewCache("g1", config, opts, dOk, cOk)
    \/ \E config \in Configs, opts \in PackageOptionLists :
            calls = 0 /\ ConfigureGlobalCache("g1", config, opts)
    \/ \E config \in Configs, opts \in PackageOptionLists, dOk \in BOOLEAN :
            calls = 0 /\ NewCachingClient("g1", config, opts, dOk)
    \/ OnceDo("g1")
    \/ \E dOk, cOk \in BOOLEAN : ConfigureBody("g1", dOk, cOk)
    \/ OnceDone("g1")
    \/ \E clOk \in BOOLEAN : NewCachingClientFinish("g1", clOk)
    \/ \E config \in Configs, opts \in OptionLists,
          dOk, cOk, clOk \in BOOLEAN :
            calls = 0
            /\ CallNewCacheAndClient("g1", config, opts, dOk, cOk, clOk)
    \/ \E config \in Configs, stopCh \in StopChs, opts \in OptionLists :
            calls = 0 /\ StartCache("g1", config, stopCh, opts)
    \/ \E dOk, cOk \in BOOLEAN : StartCacheBody("g1", dOk, cOk)

SpecOptions == Init /\ [][NextOptions]_vars

----------------------------------------------------------------------------
(* Properties *)

OnceFns == {"ConfigureGlobalCache", "NewCachingClient", "StartCache"}
ClientFns == {"SetClient", "NewCacheAndClient", "NewCachingClient",
              "NewClient"}

\* C1: over any interleaving of ConfigureGlobalCache, NewCachingClient,
\* StartCache (and SetClient) calls, the body handed to the Once runs at most
\* once, the global Cache is assigned at most once, and a Cache that is not
\* nil never changes.
C1_InitializedOnce ==
    [][/\ onceRuns' <= 1
       /\ assigns' <= 1
       /\ (Cache # Nil => Cache' = Cache)]_vars

\* After an earlier call built the Cache, a later call on a config has gone
\* through Do without running the body and returned no error.
C1_Witness ==
    /\ Cache # Nil
    /\ cacheOnce = "done"
    /\ onceRuns = 1
    /\ assigns = 1
    /\ lastRet.fn \in OnceFns
    /\ lastRet.config # NilConfig
    /\ lastRet.err = NoErr
    /\ lastRet.fn = "NewCachingClient" => lastRet.client # Nil
    /\ ~lastRet.ranBody

\* C2: after a NewCachingClient call that returns a nil error, the global
\* Cache is not nil and the returned client's cache reader is that Cache.
C2_CachingClientReadsGlobalCache ==
    (lastRet.fn = "NewCachingClient" /\ lastRet.err = NoErr)
        => /\ Cache # Nil
           /\ lastRet.client # Nil
           /\ lastRet.client.CacheReader = Cache

\* C3: a ConfigureGlobalCache call on a config made after a NewCachingClient
\* call on a config has returned builds no mapper and no cache, leaves Cache
\* alone and returns a nil error.
C3_ConfigureIsNoOpAfterCachingClient ==
    (/\ lastRet.fn = "ConfigureGlobalCache"
     /\ lastRet.config # NilConfig
     /\ lastRet.afterNCC)
        => /\ lastRet.err = NoErr
           /\ ~lastRet.ranBody

\* C4: in a run of SetClient calls alone (no UnsafeSetClient), every call that
\* returns a nil error returns a StartFunc that is not nil and leaves the
\* package-level Client not nil.
C4_SetClientReturnsStartFunc ==
    (lastRet.fn = "SetClient" /\ lastRet.err = NoErr /\ ~unsafeSet)
        => /\ lastRet.start # Nil
           /\ Client # Nil

\* C5: after StartCache(config, stopCh, opts) returns a nil error, the global
\* Cache is not nil and has been started with stopCh.
C5_StartCacheStartsCache ==
    (lastRet.fn = "StartCache" /\ lastRet.err = NoErr)
        => /\ Cache # Nil
           /\ <<Cache.id, lastRet.stopCh>> \in started

C7_ClientSharesCacheMapper ==
    LET c == lastRet.client
    IN  (/\ lastRet.fn \in ClientFns
         /\ lastRet.err = NoErr
         /\ c # Nil
         /\ c.CacheReader # Nil)
            => /\ c.Writer.Mapper # Nil
               /\ c.Writer.Mapper = c.CacheReader.Mapper

\* C8: MustGetInformer returns the informer GetInformer returns when it
\* reports no error and panics with its error otherwise; MustAddEventHandler
\* then adds the handler exactly once to that informer, or panics and adds
\* nothing.  On a nil cache both panic before GetInformer is called.
C8_MustGetAndAdd ==
    LET g == lastRet.gi
    IN  /\ lastRet.fn = "MustGetInformer" =>
              IF ~g.called THEN lastRet.panic # NoErr /\ lastRet.informer = Nil
              ELSE IF g.err = NoErr
              THEN lastRet.panic = NoErr /\ lastRet.informer = g.val
              ELSE lastRet.panic = g.err /\ lastRet.informer = Nil
        /\ lastRet.fn = "MustAddEventHandler" =>
              IF ~g.called
              THEN lastRet.panic # NoErr /\ handlers = lastRet.handlers0
              ELSE IF g.err = NoErr
              THEN /\ lastRet.panic = NoErr
                   /\ handlers = Append(lastRet.handlers0,
                                        <<g.val, lastRet.handler>>)
              ELSE /\ lastRet.panic = g.err
                   /\ handlers = lastRet.handlers0

\* A handler has been added, then GetInformer fails in a second
\* MustAddEventHandler call, which panics with the one handler in place.
C8_Witness ==
    /\ lastRet.fn = "MustAddEventHandler"
    /\ lastRet.gi.called
    /\ lastRet.gi.err # NoErr
    /\ lastRet.panic = lastRet.gi.err
    /\ Len(handlers) = 1

\* The value of the last option of a kind in opts, or zero when none is.
LastOf(opts, kind, zero) ==
    LET at == {i \in 1..Len(opts) : opts[i].kind = kind}
    IN  IF at = {} THEN zero
        ELSE opts[CHOOSE i \in at : \A j \in at : j <= i].val

\* C9 (as stated): options apply in argument order to a zero RuntimeOptions,
\* the last of a kind wins, a field no option names keeps its zero value, and
\* cache.New is handed exactly the resolved Scheme, Resync, Namespace and
\* mapper: a nil mapper when no mapper option is given.
C9_AllFieldsPassedAsResolved ==
    lastBuild # NoBuild =>
        LET opts == lastBuild.opts
            options == lastBuild.options
            resync == LastOf(opts, "Resync", 0)
        IN  /\ options.Scheme = LastOf(opts, "Scheme", "nil")
            /\ options.Resync = IF resync = 0 THEN <<>> ELSE <<resync>>
            /\ options.Namespace = LastOf(opts, "Namespace", "")
            /\ options.Mapper = LastOf(opts, "mapper", Nil)

\* C9 (amended): the cache.Options a function hands to cache.New are, for
\* Scheme, Resync and Namespace, the value of the last option of that kind in
\* the list the function was given, or the zero value when there is none; the
\* mapper is the last mapper option's when there is one, and otherwise a
\* mapper discovered from the call's config.
C9_OptionsResolved ==
    lastBuild # NoBuild =>
        LET opts == lastBuild.opts
            options == lastBuild.options
            given == LastOf(opts, "mapper", Nil)
            resync == LastOf(opts, "Resync", 0)
        IN  /\ options.Scheme = LastOf(opts, "Scheme", "nil")
            /\ options.Resync = IF resync = 0 THEN <<>> ELSE <<resync>>
            /\ options.Namespace = LastOf(opts, "Namespace", "")
            /\ IF given # Nil THEN options.Mapper = given
               ELSE /\ options.Mapper # Nil
                    /\ options.Mapper.kind = "mapper"
                    /\ options.Mapper.id > 0
                    /\ options.Mapper.config = lastBuild.config

\* A cache has been built from three options, the first and the last of one
\* kind with different values.
C9_Witness ==
    /\ lastBuild # NoBuild
    /\ Cache # Nil
    /\ Len(lastBuild.opts) >= 3
    /\ lastBuild.opts[1].kind = lastBuild.opts[3].kind
    /\ lastBuild.opts[1].val # lastBuild.opts[3].val
    /\ lastBuild.opts[2].kind # lastBuild.opts[1].kind
    /\ lastBuild.options.Namespace = lastBuild.opts[3].val

====
